---- MODULE Spec2Model ----
(***************************************************************************)
(* Model of the noDupeKeys lint rule (src/rules/no_dupe_keys.rs).          *)
(*                                                                         *)
(* Text is modelled as the sequence of its bytes, so that the order of a   *)
(* BTreeSet<String> is the lexicographic order of those sequences.  A      *)
(* module is a table of syntax nodes; node 1 is the Module root.           *)
(***************************************************************************)
EXTENDS Integers, Sequences, FiniteSets, TLC

\* ---------------------------------------------------------------- bounds
MaxProps == 4        \* longest property list of the plain-key literals
MaxMixedProps == 3   \* longest property list over the full entry syntax
MaxNestedProps == 2  \* longest property list of literals in nested modules
MaxRuns == 2         \* how many times lint_module is run on the module

\* ------------------------------------------------------------------ text
s_a == <<97>>
s_ab == <<97, 98>>
s_b == <<98>>
s_1 == <<49>>
s_10 == <<49, 48>>
s_0x1 == <<48, 120, 49>>
s_0xa == <<48, 120, 97>>
s_Duplicate_key_ == <<68, 117, 112, 108, 105, 99, 97, 116, 101, 32, 107, 101, 121, 32, 39>>
s_quote == <<39>>

Range(s) == {s[n] : n \in DOMAIN s}

\* Ord for String: byte-wise lexicographic, a proper prefix comes first.
StrLess(s, t) ==
  \E n \in 1..(Len(t)) :
     /\ \A m \in 1..(n - 1) : m <= Len(s) /\ s[m] = t[m]
     /\ n - 1 <= Len(s)
     /\ (n > Len(s) \/ s[n] < t[n])

\* Value of a numeric literal as the parser stores it in Number.value:
\* decimal digits, or hexadecimal digits after the prefix 0x.
DigitVal(c) == IF c >= 97 THEN c - 87 ELSE c - 48

RECURSIVE DigitsVal(_, _)
DigitsVal(digits, base) ==
  IF digits = <<>> THEN 0
  ELSE DigitsVal(SubSeq(digits, 1, Len(digits) - 1), base) * base
         + DigitVal(digits[Len(digits)])

ParseNum(raw) ==
  IF Len(raw) > 2 /\ raw[1] = 48 /\ raw[2] = 120
  THEN DigitsVal(SubSeq(raw, 3, Len(raw)), 16)
  ELSE DigitsVal(raw, 10)

\* Number::to_string for a non-negative integral value: its decimal digits.
RECURSIVE NumToString(_)
NumToString(n) ==
  IF n < 10 THEN <<48 + n>>
  ELSE NumToString(n \div 10) \o <<48 + (n % 10)>>

\* ------------------------------------------------------------------- AST
\* PropName. text is the identifier's sym, the string's value, or the
\* source spelling of the number (which the tree itself does not keep).
Ident(s) == [tag |-> "Ident", text |-> s, num |-> 0]
Str(s) == [tag |-> "Str", text |-> s, num |-> 0]
Num(raw) == [tag |-> "Num", text |-> raw, num |-> ParseNum(raw)]
Computed(s) == [tag |-> "Computed", text |-> s, num |-> 0]
NoName == [tag |-> "Expr", text |-> <<>>, num |-> 0]

\* PropOrSpread / Prop, flattened into one variant tag. value is the node id
\* of an object literal used as the property value, or 0 for any other
\* expression.
Entry(variant, key) == [variant |-> variant, key |-> key, value |-> 0]

None == [some |-> FALSE, val |-> <<>>]
Some(s) == [some |-> TRUE, val |-> s]

\* Variant of GetKeyPropName that takes a number's source spelling as its key.
GetKeyPropNameRaw(name) ==
  CASE name.tag \in {"Ident", "Str", "Num"} -> Some(name.text)
    [] OTHER -> None

\* impl Key for PropName
GetKeyPropName(name) ==
  CASE name.tag = "Ident" -> Some(name.text)
    [] name.tag = "Str" -> Some(name.text)
    [] name.tag = "Num" -> Some(NumToString(name.num))
    [] OTHER -> None

\* Variant of GetKeyProp that gives a shorthand property its name as key.
GetKeyPropShorthand(p) ==
  CASE p.variant \in {"KeyValue", "Getter", "Setter", "Method", "Shorthand"} -> GetKeyPropName(p.key)
    [] OTHER -> None

\* Variant of GetKeyProp that leaves accessors out of the key namespace.
GetKeyPropNoAccessors(p) ==
  CASE p.variant \in {"KeyValue", "Method"} -> GetKeyPropName(p.key)
    [] OTHER -> None

\* impl Key for Prop
GetKeyProp(p) ==
  CASE p.variant \in {"KeyValue", "Getter", "Setter", "Method"} -> GetKeyPropName(p.key)
    [] OTHER -> None

\* impl Key for PropOrSpread
GetKey(prop) ==
  IF prop.variant = "Spread" THEN None ELSE GetKeyProp(prop)

\* context.add_diagnostic(obj_lit.span, "noDupeKeys", format!(...))
Message(key) == s_Duplicate_key_ \o key \o s_quote

LitSpan(id) == <<id, 0>>
PropSpan(id, j) == <<id, j>>

\* Variant of Diagnostic that reports at the literal's first property.
DiagnosticPropSpan(span, key) ==
  [span |-> PropSpan(span[1], 1), code |-> "noDupeKeys", message |-> Message(key)]

Diagnostic(span, key) ==
  [span |-> span, code |-> "noDupeKeys", message |-> Message(key)]

\* Variant of ScanStep with the two branches exchanged.
ScanStepSwapped(ks, ds, k) ==
  IF k.some
  THEN IF k.val \in ks
       THEN [keys |-> ks \cup {k.val}, duplicates |-> ds]
       ELSE [keys |-> ks, duplicates |-> ds \cup {k.val}]
  ELSE [keys |-> ks, duplicates |-> ds]

\* Variant of ScanStep in which a further repeat withdraws the duplicate.
ScanStepToggle(ks, ds, k) ==
  IF k.some
  THEN IF k.val \in ks
       THEN [keys |-> ks,
             duplicates |-> IF k.val \in ds THEN ds \ {k.val} ELSE ds \cup {k.val}]
       ELSE [keys |-> ks \cup {k.val}, duplicates |-> ds]
  ELSE [keys |-> ks, duplicates |-> ds]

\* One iteration of the scan loop: the new (keys, duplicates).
ScanStep(ks, ds, k) ==
  IF k.some
  THEN IF k.val \in ks
       THEN [keys |-> ks, duplicates |-> ds \cup {k.val}]
       ELSE [keys |-> ks \cup {k.val}, duplicates |-> ds]
  ELSE [keys |-> ks, duplicates |-> ds]

\* Variant of FirstKey that starts from the greatest string.
LastKey(ds) == CHOOSE k \in ds : \A o \in ds \ {k} : StrLess(o, k)

\* First element of the BTreeSet's iteration: the least string.
FirstKey(ds) == CHOOSE k \in ds : \A o \in ds \ {k} : StrLess(k, o)

\* Variant of NewKeys that goes on with the set of the previous call.
KeepKeys(old) == old

\* The sets a call of visit_object_lit starts from.
NewKeys(old) == {}
NewDuplicates(old) == {}

\* Nodes the visitor goes on to after a node: the default visit methods
\* recurse into the children, the overridden visit_object_lit visits nothing
\* below the literal.
ChildrenToVisit(node) ==
  IF node.kind = "ObjectLit" THEN <<>> ELSE node.children

\* --------------------------------------------------------------- modules
ModuleNode(children) == [kind |-> "Module", children |-> children, props |-> <<>>]
ArrayNode(children) == [kind |-> "Array", children |-> children, props |-> <<>>]
ObjectLit(props) == [kind |-> "ObjectLit", children |-> <<>>, props |-> props]

SeqsUpTo(S, n) == UNION {[1..m -> S] : m \in 0..n}

PlainPool ==
  {Entry("KeyValue", Ident(s)) : s \in {s_a, s_ab, s_b}} \cup {Entry("Shorthand", Ident(s_a))}

KeyPool ==
  {Ident(s_a), Str(s_a), Str(s_1), Str(s_10), Num(s_1), Num(s_0x1), Num(s_0xa), Computed(s_a)}

MixedPool ==
  {Entry("KeyValue", k) : k \in KeyPool}
    \cup {Entry(v, k) : v \in {"Getter", "Setter", "Method"},
                        k \in {Ident(s_a)}}
    \cup {Entry("Shorthand", Ident(s_a)), Entry("Assign", Ident(s_a)), Entry("Spread", NoName)}

NestedPool == {Entry("KeyValue", Ident(s)) : s \in {s_a, s_b}}

\* var foo = { ... }
FlatModule(props) == <<ModuleNode(<<2>>), ObjectLit(props)>>

\* var foo = { ..., k: { ... }, ... }: property j of the outer literal has
\* the inner literal as its value.
NestedModule(outer, j, inner) ==
  <<ModuleNode(<<2>>),
    ObjectLit([outer EXCEPT ![j] = [@ EXCEPT !.value = 3]]),
    ObjectLit(inner)>>

\* var foo = [ { ... }, { ... } ]
ArrayModule(first, second) ==
  <<ModuleNode(<<2>>), ArrayNode(<<3, 4>>), ObjectLit(first), ObjectLit(second)>>

PlainModules == {FlatModule(p) : p \in SeqsUpTo(PlainPool, MaxProps)}
MixedModules == {FlatModule(p) : p \in SeqsUpTo(MixedPool, MaxMixedProps)}
NestedModules ==
  {NestedModule(o, j, n) : <<o, j, n>> \in
     {t \in SeqsUpTo(NestedPool, MaxNestedProps) \X (1..MaxNestedProps)
              \X SeqsUpTo(NestedPool, MaxNestedProps) : t[2] <= Len(t[1])}}
    \cup {ArrayModule(f, s) : <<f, s>> \in
            SeqsUpTo(NestedPool, MaxNestedProps) \X SeqsUpTo(NestedPool, MaxNestedProps)}

\* ----------------------------------------------------------------- state
VARIABLES
  module,       \* the parsed Module handed to lint_module
  pc,           \* "idle" | "walk" | "scan" | "emit"
  stack,        \* nodes the traversal still has to visit, next one first
  obj_lit,      \* node id of the literal visit_object_lit works on, or 0
  idx,          \* position of the scan loop in obj_lit.props
  keys,         \* HashSet<String> keys
  duplicates,   \* BTreeSet<String> duplicates
  diagnostics,  \* the context's diagnostics, in add_diagnostic order
  runStart,     \* Len(diagnostics) at each call of lint_module
  visited       \* literals visit_object_lit was called on in this run

vars == <<module, pc, stack, obj_lit, idx, keys, duplicates, diagnostics, runStart, visited>>

InitState ==
  /\ pc = "idle"
  /\ stack = <<>>
  /\ obj_lit = 0
  /\ idx = 0
  /\ keys = {}
  /\ duplicates = {}
  /\ diagnostics = <<>>
  /\ runStart = <<>>
  /\ visited = {}

Init == module \in PlainModules /\ InitState
InitMixed == module \in MixedModules /\ InitState
InitNested == module \in NestedModules /\ InitState

\* NoDupeKeys::lint_module: a new visitor starts at the module root.
LintModule ==
  /\ pc = "idle"
  /\ Len(runStart) < MaxRuns
  /\ runStart' = Append(runStart, Len(diagnostics))
  /\ stack' = <<1>>
  /\ visited' = {}
  /\ pc' = "walk"
  /\ UNCHANGED <<module, obj_lit, idx, keys, duplicates, diagnostics>>

\* A default visit method: go on with the node's children.
VisitDefault ==
  /\ pc = "walk"
  /\ stack # <<>>
  /\ module[Head(stack)].kind # "ObjectLit"
  /\ stack' = ChildrenToVisit(module[Head(stack)]) \o Tail(stack)
  /\ UNCHANGED <<module, pc, obj_lit, idx, keys, duplicates, diagnostics, runStart, visited>>

\* visit_object_lit, entry: the two sets are created.
VisitObjectLit ==
  /\ pc = "walk"
  /\ stack # <<>>
  /\ module[Head(stack)].kind = "ObjectLit"
  /\ obj_lit' = Head(stack)
  /\ keys' = NewKeys(keys)
  /\ duplicates' = NewDuplicates(duplicates)
  /\ idx' = 1
  /\ visited' = visited \cup {Head(stack)}
  /\ pc' = "scan"
  /\ UNCHANGED <<module, stack, diagnostics, runStart>>

\* for prop in &obj_lit.props { ... }
ScanProp ==
  /\ pc = "scan"
  /\ idx <= Len(module[obj_lit].props)
  /\ LET r == ScanStep(keys, duplicates, GetKey(module[obj_lit].props[idx]))
     IN /\ keys' = r.keys
        /\ duplicates' = r.duplicates
  /\ idx' = idx + 1
  /\ UNCHANGED <<module, pc, stack, obj_lit, diagnostics, runStart, visited>>

ScanDone ==
  /\ pc = "scan"
  /\ idx > Len(module[obj_lit].props)
  /\ pc' = "emit"
  /\ UNCHANGED <<module, stack, obj_lit, idx, keys, duplicates, diagnostics, runStart, visited>>

\* for key in duplicates { self.context.add_diagnostic(...) }
EmitDiagnostic ==
  /\ pc = "emit"
  /\ duplicates # {}
  /\ LET key == FirstKey(duplicates)
     IN /\ diagnostics' = Append(diagnostics, Diagnostic(LitSpan(obj_lit), key))
        /\ duplicates' = duplicates \ {key}
  /\ UNCHANGED <<module, pc, stack, obj_lit, idx, keys, runStart, visited>>

\* visit_object_lit returns. The two sets die here; keys keeps its last
\* value in the model, which nothing reads before the next call replaces it.
VisitObjectLitReturn ==
  /\ pc = "emit"
  /\ duplicates = {}
  /\ stack' = ChildrenToVisit(module[obj_lit]) \o Tail(stack)
  /\ obj_lit' = 0
  /\ idx' = 0
  /\ pc' = "walk"
  /\ UNCHANGED <<module, keys, duplicates, diagnostics, runStart, visited>>

\* visit_module returns, and with it lint_module.
LintModuleReturn ==
  /\ pc = "walk"
  /\ stack = <<>>
  /\ pc' = "idle"
  /\ UNCHANGED <<module, stack, obj_lit, idx, keys, duplicates, diagnostics, runStart, visited>>

Next ==
  \/ LintModule
  \/ VisitDefault
  \/ VisitObjectLit
  \/ ScanProp
  \/ ScanDone
  \/ EmitDiagnostic
  \/ VisitObjectLitReturn
  \/ LintModuleReturn

Spec == Init /\ [][Next]_vars
SpecMixed == InitMixed /\ [][Next]_vars
SpecNested == InitNested /\ [][Next]_vars

\* ------------------------------------------------------------ properties
Lits == {id \in DOMAIN module : module[id].kind = "ObjectLit"}

\* Runs of lint_module and what each added to the diagnostics.
RunEnd(r) == IF r < Len(runStart) THEN runStart[r + 1] ELSE Len(diagnostics)
RunDone(r) == r < Len(runStart) \/ (r = Len(runStart) /\ pc = "idle")
RunDiags(r) == SubSeq(diagnostics, runStart[r] + 1, RunEnd(r))
DiagsOf(r, id) == SelectSeq(RunDiags(r), LAMBDA d : d.span = LitSpan(id))
Finished == pc = "idle" /\ runStart # <<>>
LastRun == Len(runStart)

\* The canonical keys of a property list, in source order.
CanonKeys(props) ==
  LET part == SelectSeq(props, LAMBDA p : GetKey(p).some)
  IN [n \in 1..Len(part) |-> GetKey(part[n]).val]

Count(k, ks) == Cardinality({n \in DOMAIN ks : ks[n] = k})
DupKeys(ks) == {k \in Range(ks) : Count(k, ks) >= 2}
OwnKeys(id) == CanonKeys(module[id].props)

DiagCount(ds, k) == Cardinality({n \in DOMAIN ds : ds[n].message = Message(k)})

\* The key a message was made for.
KeyOf(d) == SubSeq(d.message, Len(s_Duplicate_key_) + 1, Len(d.message) - 1)

\* C1: while visit_object_lit scans, keys is the set of canonical keys of
\* the prefix scanned so far and duplicates the set of those occurring at
\* least twice in it; when the run is over, every literal that was visited
\* has exactly one diagnostic per key occurring at least twice among its
\* direct properties and no other diagnostic.
C1_ScanTracksPrefix ==
  /\ pc = "scan" =>
       LET pre == CanonKeys(SubSeq(module[obj_lit].props, 1, idx - 1))
       IN keys = Range(pre) /\ duplicates = DupKeys(pre)
  /\ Finished =>
       \A id \in visited :
         LET ds == DiagsOf(LastRun, id)
         IN /\ {ds[n].message : n \in DOMAIN ds} = {Message(k) : k \in DupKeys(OwnKeys(id))}
            /\ Len(ds) = Cardinality(DupKeys(OwnKeys(id)))

C1_Witness ==
  /\ Finished
  /\ \E id \in visited :
       /\ Cardinality(DupKeys(OwnKeys(id))) = 1
       /\ Cardinality(Range(OwnKeys(id))) = 3
       /\ Len(DiagsOf(LastRun, id)) = 1

\* C2: when a run is over, every object literal of the module, nested ones
\* included, has a diagnostic for each key occurring twice among its own
\* direct properties.
C2_EveryLiteralChecked ==
  Finished =>
    \A id \in Lits : \A k \in DupKeys(OwnKeys(id)) :
      \E n \in DOMAIN RunDiags(LastRun) :
        RunDiags(LastRun)[n] = Diagnostic(LitSpan(id), k)

\* C3: key sets are scoped to one literal: every diagnostic carries the span
\* of a literal among whose own direct properties its key occurs at least
\* twice, so keys of an enclosing, nested or neighbouring literal never
\* cause one.
C3_KeysScopedToLiteral ==
  \A n \in DOMAIN diagnostics :
    \E id \in Lits :
      /\ diagnostics[n].span = LitSpan(id)
      /\ Count(KeyOf(diagnostics[n]), OwnKeys(id)) >= 2

\* { a, b: { a } }-like module: a key once in the outer literal and again in
\* the nested one, run to the end without a diagnostic.
C3_Witness ==
  /\ Finished
  /\ diagnostics = <<>>
  /\ \E id \in Lits : \E j \in DOMAIN module[id].props :
       LET inner == module[id].props[j].value
       IN /\ inner # 0
          /\ \E k \in Range(OwnKeys(id)) :
               Count(k, OwnKeys(id)) = 1 /\ Count(k, OwnKeys(inner)) >= 1

\* C4: within one run the diagnostics of one literal come in strictly
\* ascending order of their keys.
C4_AscendingKeys ==
  \A r \in 1..Len(runStart) : \A id \in Lits :
    LET ds == DiagsOf(r, id)
    IN \A m, n \in DOMAIN ds : m < n => StrLess(KeyOf(ds[m]), KeyOf(ds[n]))

\* A literal whose greater key is duplicated first in the source.
C4_Witness ==
  /\ Finished
  /\ \E id \in visited :
       /\ Len(OwnKeys(id)) = 4
       /\ OwnKeys(id)[1] = OwnKeys(id)[2]
       /\ OwnKeys(id)[3] = OwnKeys(id)[4]
       /\ StrLess(OwnKeys(id)[3], OwnKeys(id)[1])
       /\ Len(DiagsOf(LastRun, id)) = 2

\* The diagnostics of literal id for the keys in ks, least key first.
RECURSIVE SortedDiags(_, _)
SortedDiags(id, ks) ==
  IF ks = {} THEN <<>>
  ELSE LET k == CHOOSE x \in ks : \A o \in ks : x = o \/ StrLess(x, o)
       IN <<Diagnostic(LitSpan(id), k)>> \o SortedDiags(id, ks \ {k})

Front(s) == SubSeq(s, 1, Len(s) - 1)

\* C5: a key occurring two or more times in a visited literal has exactly
\* one diagnostic, and when the last property repeats a key that the
\* properties before it already duplicate, the diagnostics are those of the
\* property list without that last property.
C5_PresenceOnly ==
  Finished =>
    \A id \in visited :
      LET ks == OwnKeys(id)
          ds == DiagsOf(LastRun, id)
      IN /\ \A k \in Range(ks) : Count(k, ks) >= 2 => DiagCount(ds, k) = 1
         /\ (ks # <<>> /\ GetKey(module[id].props[Len(module[id].props)]).some
               /\ Count(ks[Len(ks)], Front(ks)) >= 2)
              => ds = SortedDiags(id, DupKeys(Front(ks)))

C5_Witness ==
  /\ Finished
  /\ \E id \in visited :
       /\ Len(OwnKeys(id)) = 4
       /\ Count(OwnKeys(id)[4], OwnKeys(id)) = 3
       /\ DiagCount(DiagsOf(LastRun, id), OwnKeys(id)[4]) = 1
       /\ Len(DiagsOf(LastRun, id)) = 1

\* Entries the rule gives no key, told by their syntax.
NonParticipating(e) ==
  e.variant \in {"Spread", "Shorthand", "Assign"} \/ e.key.tag = "Computed"

Strip(props) == SelectSeq(props, LAMBDA e : ~NonParticipating(e))

\* C6: the scan step over a Spread, Shorthand or Assign entry or an entry
\* with a Computed key changes neither keys nor duplicates, and the
\* diagnostics of a visited literal are those of its property list with all
\* such entries removed.
C6_NonParticipatingIgnored ==
  [][/\ (pc = "scan" /\ idx <= Len(module[obj_lit].props)
            /\ NonParticipating(module[obj_lit].props[idx]))
          => (keys' = keys /\ duplicates' = duplicates)
     /\ (pc' = "idle" /\ runStart' # <<>>) =>
          \A id \in visited' :
            SelectSeq(SubSeq(diagnostics', runStart'[Len(runStart')] + 1, Len(diagnostics')),
                      LAMBDA d : d.span = LitSpan(id))
              = SortedDiags(id, DupKeys(CanonKeys(Strip(module[id].props))))]_vars

\* { a: .., a, get a() {} }-like literal: an entry without key, carrying the
\* same name, between two colliding ones.
C6_Witness ==
  /\ Finished
  /\ \E id \in visited :
       LET props == module[id].props
       IN /\ Len(props) = 3
          /\ ~NonParticipating(props[1])
          /\ NonParticipating(props[2])
          /\ ~NonParticipating(props[3])
          /\ props[2].key = props[1].key
          /\ Len(OwnKeys(id)) = 2
          /\ Len(DiagsOf(LastRun, id)) = 1

\* t is the decimal text of n: decimal digits without a leading zero.
IsDecimalOf(t, n) ==
  /\ t # <<>>
  /\ \A m \in DOMAIN t : t[m] \in 48..57
  /\ Len(t) = 1 \/ t[1] # 48
  /\ DigitsVal(t, 10) = n

\* t is the text a key descriptor stands for.
Denotes(name, t) ==
  CASE name.tag \in {"Ident", "Str"} -> t = name.text
    [] name.tag = "Num" -> IsDecimalOf(t, name.num)
    [] OTHER -> FALSE

Texts == {s_a, s_ab, s_b, s_1, s_10, s_0x1, s_0xa}
KeyedVariants == {"KeyValue", "Getter", "Setter", "Method"}

\* C7: two keyed entries of a visited literal whose key descriptors stand
\* for the same text (an identifier's name, a string's value, a number's
\* decimal text) have exactly one diagnostic, made for that text.
C7_CrossSyntaxIdentity ==
  Finished =>
    \A id \in visited :
      LET props == module[id].props
      IN \A m, n \in DOMAIN props : \A t \in Texts :
           (/\ m < n
            /\ props[m].variant \in KeyedVariants
            /\ props[n].variant \in KeyedVariants
            /\ Denotes(props[m].key, t)
            /\ Denotes(props[n].key, t))
             => DiagCount(DiagsOf(LastRun, id), t) = 1

\* { 1: .., 0x1: .. }-like literal: two spellings of one number.
C7_Witness ==
  /\ Finished
  /\ \E id \in visited :
       LET props == module[id].props
       IN /\ Len(props) = 2
          /\ props[1].key.tag = "Num"
          /\ props[2].key.tag = "Num"
          /\ props[1].key.text # props[2].key.text
          /\ props[1].key.num = props[2].key.num
          /\ DiagsOf(LastRun, id) = <<Diagnostic(LitSpan(id), NumToString(props[1].key.num))>>

\* C8: two entries of a visited literal among KeyValue, Getter, Setter and
\* Method whose key descriptors have the same canonical key have exactly one
\* diagnostic for it, whatever the two variants are.
C8_AccessorCollision ==
  Finished =>
    \A id \in visited :
      LET props == module[id].props
      IN \A m, n \in DOMAIN props :
           (/\ m < n
            /\ props[m].variant \in KeyedVariants
            /\ props[n].variant \in KeyedVariants
            /\ GetKeyPropName(props[m].key).some
            /\ GetKeyPropName(props[m].key) = GetKeyPropName(props[n].key))
             => DiagCount(DiagsOf(LastRun, id), GetKeyPropName(props[m].key).val) = 1

\* { get a() {}, set a(v) {} }-like literal.
C8_Witness ==
  /\ Finished
  /\ \E id \in visited :
       LET props == module[id].props
       IN /\ Len(props) = 2
          /\ {props[1].variant, props[2].variant} = {"Getter", "Setter"}
          /\ props[1].key = props[2].key
          /\ Len(DiagsOf(LastRun, id)) = 1

\* C9: every diagnostic has the code noDupeKeys, the message
\* Duplicate key '<key>' for a duplicated key of a literal, and that
\* literal's own span, never the span of one of its properties.
C9_DiagnosticShape ==
  \A n \in DOMAIN diagnostics :
    LET d == diagnostics[n]
    IN /\ d.code = "noDupeKeys"
       /\ \E id \in Lits :
            /\ d.span = LitSpan(id)
            /\ \A j \in DOMAIN module[id].props : d.span # PropSpan(id, j)
            /\ \E k \in DupKeys(OwnKeys(id)) :
                 d.message = s_Duplicate_key_ \o k \o s_quote

C9_Witness ==
  /\ Finished
  /\ Len(RunDiags(LastRun)) = 2
  /\ RunDiags(LastRun)[1].span = RunDiags(LastRun)[2].span
  /\ RunDiags(LastRun)[1].message # RunDiags(LastRun)[2].message

\* C10: every finished run of lint_module on the module added the same
\* diagnostics as the first run, and each call of visit_object_lit starts
\* its scan with keys and duplicates empty.
C10_Idempotent ==
  /\ \A r \in 1..Len(runStart) : RunDone(r) => RunDiags(r) = RunDiags(1)
  /\ (pc = "scan" /\ idx = 1) => (keys = {} /\ duplicates = {})

C10_Witness ==
  /\ pc = "idle"
  /\ Len(runStart) >= 2
  /\ RunDiags(2) # <<>>
  /\ Cardinality(visited) = 2

====
